---- MODULE Spec2Model ----
(***************************************************************************)
(* The IPL batting pipeline of streamlit_2024_batters.py as a state        *)
(* machine: the ingestion loop over the extracted JSON files, the          *)
(* DataFrame construction with its date conversion, the year selection,    *)
(* the per-(match, batter) running statistics, and                         *)
(* create_player_performance_chart.                                        *)
(*                                                                         *)
(* A JSON object is a function whose DOMAIN is the set of keys present, so *)
(* that dict.get(key, default) is Get(d, key, default) and a missing key   *)
(* is a key outside the DOMAIN.  A batter name is a sequence of one-       *)
(* character strings, so that case folding and pattern search are          *)
(* computed character by character.                                        *)
(***************************************************************************)
EXTENDS Integers, Sequences, FiniteSets, TLC

VARIABLES
    json_files,     \* glob.glob(json_path): the file paths, in glob's order
    idx,            \* how many entries of json_files the for loop has taken
    match_info,     \* the info section of the last file json.load accepted
    all_balls,      \* the list of ball_data dicts
    log,            \* what the loop has printed: one entry per skipped file
    df,             \* the DataFrame, its date column converted
    selected_year,  \* the year picked in the first selectbox
    year_data,      \* df filtered by year, with the three derived columns
    player_name,    \* the argument of create_player_performance_chart
    result,         \* what create_player_performance_chart returned
    pc,             \* the statement the script is at
    error           \* the exception that ended the script, "" if none

vars == <<json_files, idx, match_info, all_balls, log, df, selected_year, year_data,
          player_name, result, pc, error>>

(***************************************************************************)
(* Bounds of the explored inputs.                                          *)
(***************************************************************************)
MaxBalls == 2
MaxBallsSeason == 3
MaxInnings == 2
OverLen == 2

(***************************************************************************)
(* Generic helpers.                                                        *)
(***************************************************************************)
Get(d, key, default) == IF key \in DOMAIN d THEN d[key] ELSE default

Range(s) == {s[i] : i \in 1..Len(s)}

RECURSIVE SumSeq(_)
SumSeq(s) == IF s = <<>> THEN 0 ELSE s[1] + SumSeq(Tail(s))

RECURSIVE Concat(_)
Concat(ss) == IF ss = <<>> THEN <<>> ELSE ss[1] \o Concat(Tail(ss))

\* Sequences over S of length 0..n.
SeqUpTo(S, n) == UNION {[1..k -> S] : k \in 0..n}

(***************************************************************************)
(* Python compares str values by code point.  The strings the model sorts  *)
(* or groups by (match ids, team names, venues) are listed here in that    *)
(* order; StrLess is the comparison pandas applies to a group key.         *)
(***************************************************************************)
StrOrder == <<"10", "9", "Chennai Super Kings", "Eden Gardens",
              "Kolkata Knight Riders", "Unknown Venue">>

StrRank(s) == IF s = "" THEN 0 ELSE CHOOSE i \in 1..Len(StrOrder) : StrOrder[i] = s

StrLess(a, b) == StrRank(a) < StrRank(b)

(***************************************************************************)
(* Raw input.  A file path is the list of the dot-separated parts of its   *)
(* base name; a file's content is either text json.load rejects or a JSON  *)
(* object.                                                                 *)
(***************************************************************************)
BadJson == [wellformed |-> FALSE, data |-> <<>>]

JsonObject(d) == [wellformed |-> TRUE, data |-> d]

ExtraTypes == <<"wides", "noballs", "legbyes", "byes">>

\* line 62: os.path.basename(file_path).split('.')[0]
match_id_of(file_path) == file_path[1]

\* line 55 with the two list positions taken for one another
bowling_team_mirror(teams, batting_team) ==
    IF teams[1] = batting_team THEN teams[1] ELSE teams[2]

\* line 55: teams[0] if teams[1] == batting_team else teams[1]
bowling_team_of(teams, batting_team) ==
    IF teams[2] = batting_team THEN teams[1] ELSE teams[2]

\* lines 78-82: the four extras columns of a delivery
extras_columns(delivery) ==
    IF "extras" \in DOMAIN delivery
    THEN [t \in Range(ExtraTypes) |-> Get(delivery["extras"], t, 0)]
    ELSE [t \in Range(ExtraTypes) |-> 0]

\* lines 61-82: the ball_data dict of one delivery.  The bowler, non-striker
\* and wicket columns (lines 70-71, 84-98) are written but never read again
\* by the script and are left out.
ball_data_of(file_path, match_date, season, venue, batting_team, bowling_team, over_num, delivery) ==
    LET x == extras_columns(delivery)
        runs == Get(delivery, "runs", <<>>)
    IN  [match_id     |-> match_id_of(file_path),
         date         |-> match_date,
         season       |-> season,
         venue        |-> venue,
         batting_team |-> batting_team,
         bowling_team |-> bowling_team,
         over         |-> over_num,
         batter       |-> Get(delivery, "batter", <<>>),
         runs_batter  |-> Get(runs, "batter", 0),
         extras       |-> Get(runs, "extras", 0),
         total_runs   |-> Get(runs, "total", 0),
         wides        |-> x["wides"],
         noballs      |-> x["noballs"],
         legbyes      |-> x["legbyes"],
         byes         |-> x["byes"]]

\* lines 57-100: the rows one over appends
over_balls(file_path, match_date, season, venue, batting_team, bowling_team, over) ==
    LET deliveries == Get(over, "deliveries", <<>>)
    IN  [i \in 1..Len(deliveries) |->
            ball_data_of(file_path, match_date, season, venue, batting_team,
                         bowling_team, Get(over, "over", 0), deliveries[i])]

\* lines 53-100: the rows one innings appends
innings_balls(file_path, match_date, season, venue, teams, innings) ==
    LET batting_team == Get(innings, "team", "")
        bowling_team == bowling_team_of(teams, batting_team)
        overs == Get(innings, "overs", <<>>)
    IN  Concat([i \in 1..Len(overs) |->
                  over_balls(file_path, match_date, season, venue, batting_team,
                             bowling_team, overs[i])])

\* lines 47-49: the check on the teams list
too_few_teams(teams) == Len(teams) < 2

(***************************************************************************)
(* lines 28-100: one iteration of the for loop over json_files.            *)
(* outcome "skip" is a continue after the print of "said", "rows" the      *)
(* appended rows, and "IndexError" the uncaught exception of line 43 on an *)
(* empty dates list.                                                       *)
(***************************************************************************)
parse_file(file_path, content) ==
    IF ~content.wellformed
    THEN [outcome |-> "skip", rows |-> <<>>, said |-> "Error reading"]  \* lines 31-33
    ELSE
    LET match_data == content.data
        info == Get(match_data, "info", <<>>)                  \* line 36
    IN  IF DOMAIN info = {}
        THEN [outcome |-> "skip", rows |-> <<>>,
              said |-> "Warning: 'info' key is missing"]        \* lines 38-40
        ELSE
        LET dates == Get(info, "dates", <<"">>)
        IN  IF Len(dates) = 0
            THEN [outcome |-> "IndexError", rows |-> <<>>, said |-> ""]  \* line 43
            ELSE
            LET match_date == dates[1]
                season == Get(info, "season", "")       \* line 44
                venue == Get(info, "venue", "Unknown Venue")
                teams == Get(info, "teams", <<>>)
            IN  IF too_few_teams(teams)
                THEN [outcome |-> "skip", rows |-> <<>>,
                      said |-> "Warning: Not enough teams found"]  \* lines 47-49
                ELSE
                LET inns == Get(match_data, "innings", <<>>)
                IN  [outcome |-> "rows", said |-> "",
                     rows |-> Concat([i \in 1..Len(inns) |->
                                 innings_balls(file_path, match_date, season,
                                               venue, teams, inns[i])])]

(***************************************************************************)
(* lines 103-110: the DataFrame and its date column.                       *)
(* pd.to_datetime maps "" to NaT, a date string to its datetime, and       *)
(* raises on any other text.  A datetime is <<year, month, day>>.          *)
(***************************************************************************)
NaT == <<>>

KnownDates ==
    ("2023-04-01" :> <<2023, 4, 1>>) @@ ("2024-05-01" :> <<2024, 5, 1>>)
        @@ ("2024-05-02" :> <<2024, 5, 2>>)

parseable(s) == s = "" \/ s \in DOMAIN KnownDates

to_datetime(s) == IF s = "" THEN NaT ELSE KnownDates[s]

\* A float64 of the year column: .dt.year is NaN on NaT.
NaN == [nan |-> TRUE, val |-> 0]

Float(n) == [nan |-> FALSE, val |-> n]

\* == on floats: NaN equals nothing, itself included
FloatEq(a, b) == ~a.nan /\ ~b.nan /\ a.val = b.val

dt_year(d) == IF d = NaT THEN NaN ELSE Float(d[1])

\* datetime order; sort_values puts NaT last
DateLess(a, b) ==
    /\ a # NaT
    /\ \/ b = NaT
       \/ a[1] < b[1]
       \/ a[1] = b[1] /\ a[2] < b[2]
       \/ a[1] = b[1] /\ a[2] = b[2] /\ a[3] < b[3]

\* line 107
convert_dates(balls) ==
    [i \in 1..Len(balls) |-> [balls[i] EXCEPT !.date = to_datetime(balls[i].date)]]

\* line 110, as a set: the options of the year selectbox
available_years_of(frame) == {dt_year(frame[i].date) : i \in 1..Len(frame)}

(***************************************************************************)
(* lines 119-124: the year filter and the derived columns.                 *)
(***************************************************************************)
\* line 119
year_filter(frame, year) ==
    SelectSeq(frame, LAMBDA r : FloatEq(dt_year(r.date), year))

\* line 122
valid_ball_of(row) == row.wides = 0

\* line 123: groupby(['match_id', 'batter'])['valid_ball'].cumsum()
balls_faced_of(rows, i) ==
    Cardinality({j \in 1..i : /\ rows[j].match_id = rows[i].match_id
                              /\ rows[j].batter = rows[i].batter
                              /\ valid_ball_of(rows[j])})

\* line 124 summing total_runs, which credits the extras to the batter
total_runs_scored_with_extras(rows, i) ==
    SumSeq([j \in 1..Len(rows) |->
              IF rows[j].match_id = rows[i].match_id /\ rows[j].batter = rows[i].batter
              THEN rows[j].total_runs ELSE 0])

\* line 124: groupby(['match_id', 'batter'])['runs_batter'].transform('sum')
total_runs_scored_of(rows, i) ==
    SumSeq([j \in 1..Len(rows) |->
              IF rows[j].match_id = rows[i].match_id /\ rows[j].batter = rows[i].batter
              THEN rows[j].runs_batter ELSE 0])

\* lines 119-124
year_data_of(frame, year) ==
    LET rows == year_filter(frame, year)
    IN  [i \in 1..Len(rows) |->
            rows[i] @@ [valid_ball        |-> valid_ball_of(rows[i]),
                        balls_faced       |-> balls_faced_of(rows, i),
                        total_runs_scored |-> total_runs_scored_of(rows, i)]]

(***************************************************************************)
(* line 137: Series.str.contains(player_name, case=False, na=False).       *)
(* str.contains takes its pattern as a regular expression (regex=True is   *)
(* the default) and searches each value with re.IGNORECASE.  Over the      *)
(* characters of the model, letters and digits are literals and ( ) open   *)
(* and close a group: compiling raises re.error on unbalanced parentheses, *)
(* and a compiled pattern matches where its literals, taken in order, are  *)
(* a contiguous part of the value.                                         *)
(***************************************************************************)
LowerCase == ("K" :> "k") @@ ("O" :> "o")

Fold(c) == IF c \in DOMAIN LowerCase THEN LowerCase[c] ELSE c

RECURSIVE groups_balanced(_, _)
groups_balanced(pat, depth) ==
    IF pat = <<>> THEN depth = 0
    ELSE IF pat[1] = "(" THEN groups_balanced(Tail(pat), depth + 1)
    ELSE IF pat[1] = ")" THEN depth > 0 /\ groups_balanced(Tail(pat), depth - 1)
    ELSE groups_balanced(Tail(pat), depth)

pattern_compiles(pat) == groups_balanced(pat, 0)

pattern_literals(pat) == SelectSeq(pat, LAMBDA c : c \notin {"(", ")"})

\* re.search of the literal run lit in text, ignoring case
search(lit, text) ==
    \E i \in 0..(Len(text) - Len(lit)) :
        \A j \in 1..Len(lit) : Fold(text[i + j]) = Fold(lit[j])

str_contains(value, pat) == search(pattern_literals(pat), value)

(***************************************************************************)
(* Sorting and grouping as pandas does them.                               *)
(***************************************************************************)
\* sort_values('date'): on the few rows of the model numpy's quicksort is an
\* insertion sort, which keeps equal dates in their order
RECURSIVE insert_by_date(_, _)
insert_by_date(sorted, row) ==
    IF sorted = <<>> THEN <<row>>
    ELSE IF DateLess(row.date, sorted[Len(sorted)].date)
         THEN Append(insert_by_date(SubSeq(sorted, 1, Len(sorted) - 1), row),
                     sorted[Len(sorted)])
         ELSE Append(sorted, row)

RECURSIVE sort_values_date(_)
sort_values_date(rows) ==
    IF rows = <<>> THEN <<>>
    ELSE insert_by_date(sort_values_date(SubSeq(rows, 1, Len(rows) - 1)), rows[Len(rows)])

\* line 142: the group key
group_key(row) == <<row.match_id, row.bowling_team, row.date, row.venue>>

\* the order of two group keys: by match_id, then bowling_team, date, venue
KeyLess(a, b) ==
    \/ StrLess(a[1], b[1])
    \/ a[1] = b[1] /\ StrLess(a[2], b[2])
    \/ a[1] = b[1] /\ a[2] = b[2] /\ DateLess(a[3], b[3])
    \/ a[1] = b[1] /\ a[2] = b[2] /\ a[3] = b[3] /\ StrLess(a[4], b[4])

\* groupby(...) with sort=True (the default): the keys in ascending order
RECURSIVE sorted_keys(_)
sorted_keys(keys) ==
    IF keys = {} THEN <<>>
    ELSE LET least == CHOOSE k \in keys : \A o \in keys \ {k} : KeyLess(k, o)
         IN  <<least>> \o sorted_keys(keys \ {least})

MaxOf(S) == CHOOSE m \in S : \A o \in S : o <= m

\* lines 142-145: groupby([...]).agg({'total_runs_scored': 'first',
\*                                    'balls_faced': 'max'}).reset_index()
group_and_aggregate(player_data) ==
    LET keys == sorted_keys({group_key(player_data[i]) : i \in 1..Len(player_data)})
        members(k) == SelectSeq(player_data, LAMBDA r : group_key(r) = k)
    IN  [g \in 1..Len(keys) |->
            [match_id          |-> keys[g][1],
             bowling_team      |-> keys[g][2],
             date              |-> keys[g][3],
             venue             |-> keys[g][4],
             total_runs_scored |-> members(keys[g])[1].total_runs_scored,
             balls_faced       |-> MaxOf({members(keys[g])[i].balls_faced :
                                            i \in 1..Len(members(keys[g]))})]]

\* line 148: drop_duplicates(subset=['match_id']) keeps the first row of each id
drop_duplicates_match_id(rows) ==
    LET keep == {i \in 1..Len(rows) : \A j \in 1..(i - 1) : rows[j].match_id # rows[i].match_id}
        RECURSIVE take(_)
        take(i) == IF i > Len(rows) THEN <<>>
                   ELSE (IF i \in keep THEN <<rows[i]>> ELSE <<>>) \o take(i + 1)
    IN  take(1)

(***************************************************************************)
(* Strike rates.  A rate is kept in hundredths, as round(2) leaves it:     *)
(* [kind |-> "num", h |-> n] is n/100; 0/0 is NaN and x/0 is inf, which    *)
(* pandas returns without raising.                                         *)
(***************************************************************************)
Rate(h) == [kind |-> "num", h |-> h]

\* the quotient cut after two decimals instead of rounded
round2_truncating(num, den) == (num * 10000) \div den

\* round(num / den * 100, 2) in hundredths, den > 0, ties to even
round2(num, den) ==
    LET q == (num * 10000) \div den
        r == (num * 10000) % den
    IN  IF 2 * r < den THEN q
        ELSE IF 2 * r > den THEN q + 1
        ELSE IF q % 2 = 0 THEN q ELSE q + 1

\* line 155: a Series division, then round(2)
series_strike_rate(runs, balls) ==
    IF balls = 0
    THEN (IF runs = 0 THEN [kind |-> "nan", h |-> 0] ELSE [kind |-> "inf", h |-> 0])
    ELSE Rate(round2(runs, balls))

\* line 153
overall_strike_rate_of(total_runs, total_balls) ==
    IF total_balls > 0 THEN Rate(round2(total_runs, total_balls)) ELSE Rate(0)

\* lines 158-172
team_acronyms ==
    ("Kolkata Knight Riders" :> "KKR") @@ ("Royal Challengers Bengaluru" :> "RCB")
        @@ ("Chennai Super Kings" :> "CSK") @@ ("Delhi Capitals" :> "DC")
        @@ ("Mumbai Indians" :> "MI") @@ ("Punjab Kings" :> "PBKS")
        @@ ("Rajasthan Royals" :> "RR") @@ ("Sunrisers Hyderabad" :> "SRH")
        @@ ("Lucknow Super Giants" :> "LSG") @@ ("Gujarat Titans" :> "GT")

replace_acronym(team) == IF team \in DOMAIN team_acronyms THEN team_acronyms[team] ELSE team

(***************************************************************************)
(* lines 133-204: create_player_performance_chart.  "fig" is the data of   *)
(* the figure: one bar per row of player_performances, in row order.       *)
(***************************************************************************)
EmptyChart == [outcome |-> "ok", fig |-> <<>>, total_runs |-> 0, overall_strike_rate |-> Rate(0)]

\* line 137: the rows of one player, sorted by date
player_data_of(data, name) ==
    sort_values_date(SelectSeq(data, LAMBDA r : str_contains(r.batter, name)))

create_player_performance_chart(data, name) ==
    IF name = <<>> THEN EmptyChart                                  \* lines 134-135
    ELSE IF ~pattern_compiles(name)
    THEN [outcome |-> "re.error", fig |-> <<>>, total_runs |-> 0,
          overall_strike_rate |-> Rate(0)]                          \* line 137 raises
    ELSE
    LET player_data == player_data_of(data, name)
    IN  IF player_data = <<>> THEN EmptyChart                       \* lines 139-140
        ELSE
        LET player_performances == drop_duplicates_match_id(group_and_aggregate(player_data))
            total_runs == SumSeq([i \in 1..Len(player_performances) |->
                                    player_performances[i].total_runs_scored])
            total_balls == SumSeq([i \in 1..Len(player_performances) |->
                                     player_performances[i].balls_faced])
        IN  [outcome |-> "ok",
             fig |-> [i \in 1..Len(player_performances) |->
                        [player_performances[i] EXCEPT
                            !.bowling_team = replace_acronym(@)]
                        @@ [strike_rate |->
                              series_strike_rate(player_performances[i].total_runs_scored,
                                                 player_performances[i].balls_faced)]],
             total_runs |-> total_runs,
             overall_strike_rate |-> overall_strike_rate_of(total_runs, total_balls)]

\* lines 127-128: the options of the player selectbox
year_players_of(data) == {data[i].batter : i \in 1..Len(data)}

(***************************************************************************)
(* The explored inputs.  Contents(...)[n] is the set of file contents with *)
(* at most n deliveries: unreadable text, an object with no info key, one  *)
(* with an empty info, and every object made of an info section and a list *)
(* of innings drawn from the given parts.                                  *)
(***************************************************************************)
Paths == {<<"10", "json">>, <<"9", "json">>}

\* the glob results: every list of distinct paths
Globs == {g \in SeqUpTo(Paths, Cardinality(Paths)) :
             \A i, j \in 1..Len(g) : i # j => g[i] # g[j]}

KKR == "Kolkata Knight Riders"

CSK == "Chennai Super Kings"

Ko == <<"K", "o">>

K2 == <<"K", "(", "2", ")">>

\* a delivery of batter b scoring rb, with the extras dict x (<<>>: no extras key)
Delivery(b, rb, x) ==
    LET e == SumSeq([i \in 1..Len(ExtraTypes) |-> Get(x, ExtraTypes[i], 0)])
    IN  [batter |-> b, runs |-> [batter |-> rb, extras |-> e, total |-> rb + e]]
            @@ (IF x = <<>> THEN <<>> ELSE [extras |-> x])

\* the overs of an innings whose deliveries are ds, OverLen deliveries to an over
Overs(ds) ==
    [k \in 1..((Len(ds) + OverLen - 1) \div OverLen) |->
        [over |-> k - 1,
         deliveries |-> SubSeq(ds, (k - 1) * OverLen + 1,
                               IF k * OverLen < Len(ds) THEN k * OverLen ELSE Len(ds))]]

\* the innings of exactly m deliveries
InningsOf(teamParts, deliveries, m) ==
    {t @@ [overs |-> Overs(ds)] : t \in teamParts, ds \in [1..m -> deliveries]}

\* the lists of at most k innings, each of at least one delivery, n at most in all
RECURSIVE InningsLists(_, _, _, _)
InningsLists(teamParts, deliveries, k, n) ==
    {<<>>} \cup
    (IF k = 0 THEN {}
     ELSE UNION {{<<inn>> \o rest :
                    inn \in InningsOf(teamParts, deliveries, m),
                    rest \in InningsLists(teamParts, deliveries, k - 1, n - m)} :
                 m \in 1..n})

SeasonOf == ("2023-04-01" :> "2023") @@ ("2024-05-01" :> "2024") @@ ("2024-05-02" :> "2024")

\* an info section: the dates and teams parts given, a venue, and the season
\* of the first date when there is one
Info(datesPart, teamsPart) ==
    LET dates == Get(datesPart, "dates", <<>>)
    IN  datesPart @@ teamsPart @@ [venue |-> "Eden Gardens"]
            @@ (IF dates # <<>> /\ dates[1] \in DOMAIN SeasonOf
                THEN [season |-> SeasonOf[dates[1]]] ELSE <<>>)

Contents(dead, liveInfos, teamParts, deliveries, cap) ==
    [n \in 0..cap |->
        dead \cup
        {JsonObject([info |-> i] @@ (IF l = <<>> THEN <<>> ELSE [innings |-> l])) :
            i \in liveInfos,
            l \in InningsLists(teamParts, deliveries, MaxInnings, n)}]

\* the query texts tried beside the listed players: empty, a full name in
\* two spellings, a part shared by both batters, a part of one, an open group
Queries == {<<>>, Ko, <<"k", "O">>, <<"K">>, K2, <<"(", "2", ")">>, <<"(">>}

\* The inputs of the batting statistics: three match dates in two years, both
\* innings orders, two batters, runs with and without wides and leg-byes.
QueryContents ==
    Contents({BadJson},
             {Info([dates |-> <<d>>], [teams |-> <<CSK, KKR>>]) :
                d \in {"2023-04-01", "2024-05-01", "2024-05-02"}},
             {[team |-> CSK], [team |-> KKR]},
             {Delivery(b, k[1], k[2]) :
                b \in {Ko, K2},
                k \in {<<1, <<>>>>, <<1, [wides |-> 1]>>, <<0, [legbyes |-> 1]>>}},
             MaxBalls)

\* The inputs of the ingestion loop: every kind of record the loop tells
\* apart (unreadable text, no info, empty info, too few teams, a dates key
\* that is absent, empty, unparseable or a date), team lists with and without
\* a repeated name, and innings whose team is absent or names a third team.
IngestContents ==
    Contents({BadJson, JsonObject(<<>>), JsonObject([info |-> <<>>])}
                \cup {JsonObject([info |-> Info(d, [teams |-> <<CSK>>])]
                                 @@ [innings |-> <<[team |-> CSK, overs |->
                                        Overs(<<Delivery(Ko, 1, <<>>)>>)]>>]) :
                        d \in {<<>>, [dates |-> <<>>]}},
             {Info(d, [teams |-> t]) :
                d \in {<<>>, [dates |-> <<>>], [dates |-> <<"1st of May">>],
                       [dates |-> <<"2024-05-01">>]},
                t \in {<<CSK, KKR>>, <<KKR, KKR>>}},
             {<<>>, [team |-> CSK], [team |-> KKR], [team |-> "Mumbai Indians"]},
             {Delivery(Ko, 1, <<>>)},
             MaxBalls)

\* The inputs of the season totals: matches of two years, two batters,
\* runs, dot balls and wides, up to MaxBallsSeason deliveries.
SeasonContents ==
    Contents({BadJson},
             {Info([dates |-> <<d>>], [teams |-> <<CSK, KKR>>]) :
                d \in {"2023-04-01", "2024-05-01"}},
             {[team |-> CSK]},
             {Delivery(Ko, 1, <<>>), Delivery(Ko, 0, <<>>), Delivery(Ko, 0, [wides |-> 1]),
              Delivery(K2, 1, <<>>)},
             MaxBallsSeason)

(***************************************************************************)
(* The script, statement by statement.                                     *)
(***************************************************************************)
Init ==
    /\ json_files \in Globs
    /\ idx = 0
    /\ match_info = <<>>
    /\ all_balls = <<>>
    /\ log = <<>>
    /\ df = <<>>
    /\ selected_year = NaN
    /\ year_data = <<>>
    /\ player_name = <<>>
    /\ result = EmptyChart
    /\ pc = "loop"
    /\ error = ""

\* lines 27-100: one iteration of the for loop, on a file of at most
\* cap - Len(all_balls) deliveries
ReadFile(contents, cap) ==
    /\ pc = "loop"
    /\ idx < Len(json_files)
    /\ \E content \in contents[cap - Len(all_balls)] :
          LET parsed == parse_file(json_files[idx + 1], content)
          IN  /\ match_info' = IF content.wellformed
                               THEN Get(content.data, "info", <<>>)
                               ELSE match_info
              /\ all_balls' = all_balls \o parsed.rows
              /\ log' = IF parsed.outcome = "skip" THEN Append(log, parsed.said) ELSE log
              /\ pc' = IF parsed.outcome = "IndexError" THEN "crashed" ELSE "loop"
              /\ error' = IF parsed.outcome = "IndexError" THEN "IndexError" ELSE ""
    /\ idx' = idx + 1
    /\ UNCHANGED <<json_files, df, selected_year, year_data, player_name, result>>

\* lines 103-110: the DataFrame, the date conversion, the available years.
\* With no row at all the frame has no date column and line 110 raises
\* KeyError; a date text pd.to_datetime cannot parse makes line 107 raise.
BuildFrame ==
    /\ pc = "loop"
    /\ idx = Len(json_files)
    /\ IF all_balls = <<>>
       THEN pc' = "crashed" /\ error' = "KeyError" /\ df' = df
       ELSE IF \E i \in 1..Len(all_balls) : ~parseable(all_balls[i].date)
       THEN pc' = "crashed" /\ error' = "DateParseError" /\ df' = df
       ELSE pc' = "select_year" /\ error' = "" /\ df' = convert_dates(all_balls)
    /\ UNCHANGED <<json_files, idx, match_info, all_balls, log, selected_year, year_data,
                   player_name, result>>

\* lines 116-128: the year selectbox, the year filter and the derived columns
SelectYear ==
    /\ pc = "select_year"
    /\ \E year \in available_years_of(df) :
          /\ selected_year' = year
          /\ year_data' = year_data_of(df, year)
    /\ pc' = "select_player"
    /\ UNCHANGED <<json_files, idx, match_info, all_balls, log, df, player_name, result, error>>

\* lines 130-207: the player selectbox and the call of
\* create_player_performance_chart, on a listed player or on any query text
Chart(queries) ==
    /\ pc = "select_player"
    /\ \E name \in year_players_of(year_data) \cup queries :
          LET chart == create_player_performance_chart(year_data, name)
          IN  /\ player_name' = name
              /\ result' = chart
              /\ pc' = IF chart.outcome = "ok" THEN "done" ELSE "crashed"
              /\ error' = IF chart.outcome = "ok" THEN "" ELSE chart.outcome
    /\ UNCHANGED <<json_files, idx, match_info, all_balls, log, df, selected_year, year_data>>

Next ==
    \/ ReadFile(QueryContents, MaxBalls)
    \/ BuildFrame
    \/ SelectYear
    \/ Chart(Queries)

Spec == Init /\ [][Next]_vars

\* the same script on the inputs of the ingestion loop
NextIngest ==
    \/ ReadFile(IngestContents, MaxBalls)
    \/ BuildFrame
    \/ SelectYear
    \/ Chart(Queries)

SpecIngest == Init /\ [][NextIngest]_vars

\* the same script on the inputs of the season totals
NextSeason ==
    \/ ReadFile(SeasonContents, MaxBallsSeason)
    \/ BuildFrame
    \/ SelectYear
    \/ Chart(Queries)

SpecSeason == Init /\ [][NextSeason]_vars

(***************************************************************************)
(* What the claims speak of, computed from the event table itself and not  *)
(* from the derived columns.                                               *)
(***************************************************************************)
FoldAll(s) == [i \in 1..Len(s) |-> Fold(s[i])]

\* q is a case-insensitive substring of name, character for character
IsSubstring(q, name) ==
    \E i \in 0..(Len(name) - Len(q)) : SubSeq(FoldAll(name), i + 1, i + Len(q)) = FoldAll(q)

BattersOfYear == {year_data[i].batter : i \in 1..Len(year_data)}

\* the query q designates the batter b of the selected year and no other
Designates(q, b) ==
    /\ b \in BattersOfYear
    /\ \A o \in BattersOfYear : IsSubstring(q, o) <=> o = b

\* the sum of runs_batter over b's deliveries of match m
RunsBatted(m, b) ==
    SumSeq([i \in 1..Len(all_balls) |->
              IF all_balls[i].match_id = m /\ all_balls[i].batter = b
              THEN all_balls[i].runs_batter ELSE 0])

\* the number of b's deliveries of match m that are not wides
NonWides(m, b) ==
    Cardinality({i \in 1..Len(all_balls) : /\ all_balls[i].match_id = m
                                           /\ all_balls[i].batter = b
                                           /\ all_balls[i].wides = 0})

\* the year a date text stands for
YearOfText(s) == IF s \in DOMAIN KnownDates THEN Float(KnownDates[s][1]) ELSE NaN

\* the sum of runs_batter over b's deliveries of the selected year
RunsOfSeason(b) ==
    SumSeq([i \in 1..Len(all_balls) |->
              IF all_balls[i].batter = b /\ FloatEq(YearOfText(all_balls[i].date), selected_year)
              THEN all_balls[i].runs_batter ELSE 0])

Rows == result.fig

\* the rows of the event table that came from the file the loop read last
CurrentRows ==
    IF idx = 0 THEN <<>>
    ELSE SelectSeq(all_balls, LAMBDA r : r.match_id = match_id_of(json_files[idx]))

ListedTeams == Get(match_info, "teams", <<>>)

(***************************************************************************)
(* C1.  For the batter a query designates, the balls faced of each match   *)
(* row equals the number of that batter's deliveries in the match whose    *)
(* wides count is 0, whatever the innings they were ingested in.           *)
(***************************************************************************)
C1_BallsFacedCountsNonWides ==
    pc = "done" =>
        \A b \in BattersOfYear : Designates(player_name, b) =>
            \A i \in 1..Len(Rows) : Rows[i].balls_faced = NonWides(Rows[i].match_id, b)

(***************************************************************************)
(* C2.  For the batter a query designates, the runs of each match row      *)
(* equal the sum of runs_batter over that batter's deliveries in the       *)
(* match; extras are not credited.                                         *)
(***************************************************************************)
C2_RunsAreTheBatterRuns ==
    pc = "done" =>
        \A b \in BattersOfYear : Designates(player_name, b) =>
            \A i \in 1..Len(Rows) : Rows[i].total_runs_scored = RunsBatted(Rows[i].match_id, b)

\* a designated batter with two scoring deliveries in a match, one of them
\* carrying extras, and the row of that match
C2_Witness ==
    /\ pc = "done"
    /\ \E b \in BattersOfYear :
          /\ Designates(player_name, b)
          /\ \E i \in 1..Len(Rows) :
                /\ Rows[i].total_runs_scored = 2
                /\ \E j \in 1..Len(all_balls) :
                      /\ all_balls[j].match_id = Rows[i].match_id
                      /\ all_balls[j].batter = b
                      /\ all_balls[j].extras > 0

(***************************************************************************)
(* C3.  A match row whose balls faced is 0 has strike rate exactly 0.      *)
(***************************************************************************)
C3_ZeroBallsGiveRateZero ==
    pc = "done" =>
        \A i \in 1..Len(Rows) : Rows[i].balls_faced = 0 => Rows[i].strike_rate = Rate(0)

(***************************************************************************)
(* C4.  A loop iteration on a record that is unreadable, or has no or an   *)
(* empty info section, or lists fewer than two teams, adds no row to the   *)
(* event table and leaves the loop running.                                *)
(***************************************************************************)
C4_MalformedRecordsAreSkipped ==
    [][(/\ pc = "loop"
        /\ idx' = idx + 1
        /\ \/ log' # log
           \/ DOMAIN match_info' = {}
           \/ Len(Get(match_info', "teams", <<>>)) < 2)
       => (all_balls' = all_balls /\ pc' = "loop")]_vars

(***************************************************************************)
(* C5.  The match rows of a chart are in non-decreasing order of date.     *)
(***************************************************************************)
C5_RowsOrderedByDate ==
    pc = "done" =>
        \A i, j \in 1..Len(Rows) : i < j => ~DateLess(Rows[j].date, Rows[i].date)

(***************************************************************************)
(* C6.  A non-empty query that is a case-insensitive substring of one      *)
(* batter's name and of no other's returns a non-empty chart, the same as  *)
(* every other such query for that batter.                                 *)
(***************************************************************************)
C6_CaseInsensitiveSubstring ==
    ((pc = "done" \/ error = "re.error") /\ player_name # <<>>) =>
        \A b \in BattersOfYear : Designates(player_name, b) =>
            /\ result.outcome = "ok"
            /\ Rows # <<>>
            /\ \A q \in (Queries \cup BattersOfYear) \ {<<>>} :
                  Designates(q, b) => create_player_performance_chart(year_data, q) = result

(***************************************************************************)
(* C7.  A record without a usable date (no dates key, an empty dates list, *)
(* a date text that cannot be parsed) never ends the script, and none of   *)
(* its rows is in the data of a selected year.                             *)
(***************************************************************************)
C7_MissingDateNeverCrashes ==
    /\ error \notin {"IndexError", "DateParseError"}
    /\ pc \in {"select_player", "done"} =>
          \A i \in 1..Len(year_data) : year_data[i].date # NaT

(***************************************************************************)
(* C8.  The season totals: total runs is the sum of the runs of the match  *)
(* rows, which for a designated batter is the sum of runs_batter over the  *)
(* batter's deliveries of the selected year; the overall strike rate is 0  *)
(* when the match rows' balls faced sum to 0 and otherwise total runs      *)
(* divided by that sum, times 100.  As stated (C8_SeasonTotalsExact) the   *)
(* rate is the exact quotient; as amended (C8_SeasonTotalsRounded) it is   *)
(* the quotient rounded to two decimals, that is, within half a hundredth. *)
(***************************************************************************)
RowRuns == SumSeq([i \in 1..Len(Rows) |-> Rows[i].total_runs_scored])

RowBalls == SumSeq([i \in 1..Len(Rows) |-> Rows[i].balls_faced])

Abs(n) == IF n < 0 THEN 0 - n ELSE n

TotalRunsAreSeasonRuns ==
    /\ result.total_runs = RowRuns
    /\ \A b \in BattersOfYear : Designates(player_name, b) /\ Rows # <<>> =>
          result.total_runs = RunsOfSeason(b)

BowlingIsTheOther(r) ==
    /\ r.bowling_team \in {ListedTeams[1], ListedTeams[2]}
    /\ r.bowling_team # r.batting_team

C9_BowlingTeamIsTheOtherTeam ==
    \A i \in 1..Len(CurrentRows) : BowlingIsTheOther(CurrentRows[i])

C9_BowlingTeamIsTheOtherOfTwo ==
    \A i \in 1..Len(CurrentRows) :
        ListedTeams[1] # ListedTeams[2] => BowlingIsTheOther(CurrentRows[i])

\* a match of two different teams with a row of each listed team batting, or
\* with an innings that has no team and one that names a third team
C9_Witness ==
    /\ Len(CurrentRows) = 2
    /\ ListedTeams[1] # ListedTeams[2]
    /\ \/ {CurrentRows[1].batting_team, CurrentRows[2].batting_team}
             = {ListedTeams[1], ListedTeams[2]}
       \/ {CurrentRows[1].batting_team, CurrentRows[2].batting_team}
             = {"", "Mumbai Indians"}

(***************************************************************************)
(* C10.  A chart holds exactly one row per match id in which a selected    *)
(* batter has deliveries, and for a designated batter that row carries the *)
(* full runs and the full balls-faced count of the match, also when the    *)
(* match had several grouping keys.                                        *)
(***************************************************************************)
C10_OneFullRowPerMatch ==
    (pc = "done" /\ Rows # <<>>) =>
        /\ \A i, j \in 1..Len(Rows) : Rows[i].match_id = Rows[j].match_id => i = j
        /\ {Rows[i].match_id : i \in 1..Len(Rows)}
              = {year_data[i].match_id :
                    i \in {k \in 1..Len(year_data) : str_contains(year_data[k].batter, player_name)}}
        /\ \A b \in BattersOfYear : Designates(player_name, b) =>
              \A i \in 1..Len(Rows) :
                  /\ Rows[i].total_runs_scored = RunsBatted(Rows[i].match_id, b)
                  /\ Rows[i].balls_faced = NonWides(Rows[i].match_id, b)

====
